---- MODULE Spec2Model ----
(***************************************************************************)
(* A model of verification/verify_script.py: the single procedure          *)
(* verify_date_picker, statement by statement.  Every Playwright call that *)
(* the procedure makes either returns or raises an exception derived from  *)
(* Exception; browser.close() and the exit of the `with` block return.     *)
(* The page is the environment: whether the text field's shadow root holds *)
(* an md-icon-button is fixed for the run, and the dialog's `open`         *)
(* property changes only when the click is dispatched.                     *)
(***************************************************************************)
EXTENDS Naturals, Sequences, FiniteSets, TLC

VARIABLES
    pc,            \* the statement verify_date_picker executes next
    log,           \* history of the run: <<kind, what>> pairs, oldest first
    locals,        \* the bound local booleans has_icon / is_open
    exc,           \* the exception in flight ("none", or the step that raised)
    playwright,    \* the sync_playwright() context: "off", "running", "stopped"
    browser,       \* the name `browser`: "unbound", "open", "closed"
    page,          \* the name `page`: "unbound", "open"
    buttonInShadow,\* page: field.shadowRoot.querySelector('md-icon-button') # null
    dialogOpen,    \* page: document.querySelector('md-date-picker-dialog').open
    openAtClick    \* history: dialog.open when the click was dispatched

vars == <<pc, log, locals, exc, playwright, browser, page,
          buttonInShadow, dialogOpen, openAtClick>>

\* The fixed paths of the two screenshots.
BeforeClickPath == "verification/before_click.png"
AfterClickPath == "verification/after_click.png"

\* The statements of the try block that call the page, in source order.
ProbeSteps ==
    << "goto", "wait_for_selector", "wait_for_timeout_2000",
       "evaluate_has_icon", "screenshot_before_click", "evaluate_click",
       "wait_for_timeout_500", "evaluate_is_open", "screenshot_after_click" >>

\* Every statement of the try block, prints included, in source order.
TryBody ==
    << "goto", "wait_for_selector", "wait_for_timeout_2000",
       "evaluate_has_icon", "print_has_icon", "screenshot_before_click",
       "evaluate_click", "wait_for_timeout_500", "evaluate_is_open",
       "print_is_open", "screenshot_after_click" >>

Index(seq, x) == CHOOSE i \in 1..Len(seq) : seq[i] = x

\* Mutant of Succ: the click is issued before the first screenshot.
Succ_swapped(step) ==
    CASE step = "print_has_icon" -> "evaluate_click"
      [] step = "evaluate_click" -> "screenshot_before_click"
      [] step = "screenshot_before_click" -> "wait_for_timeout_500"
      [] step = TryBody[Len(TryBody)] -> "finally"
      [] OTHER -> TryBody[Index(TryBody, step) + 1]

\* Sequential control flow inside the try block: the statement after `step`;
\* falling off the end of the block skips `except` and enters `finally`.
Succ(step) ==
    IF step = TryBody[Len(TryBody)]
    THEN "finally"
    ELSE TryBody[Index(TryBody, step) + 1]

\* Mutant of PyStr: the boolean is formatted as JavaScript prints it.
PyStr_js(b) == IF b THEN "true" ELSE "false"

\* Python's str() of a bool, as an f-string interpolates it.
PyStr(b) == IF b THEN "True" ELSE "False"

\* str(e) of the exception a step raised.
Message(step) == step \o " failed"

HasIconLine(b) == "Has trailing icon button: " \o PyStr(b)
IsOpenLine(b) == "Dialog open after click: " \o PyStr(b)
ErrorLine(step) == "Error: " \o Message(step)

Call(step) == <<"call", step>>
RaiseEv(step) == <<"raise", step>>
PrintEv(line) == <<"print", line>>
WriteEv(path) == <<"write", path>>

Bind(name, v) == [n \in DOMAIN locals \cup {name} |->
                    IF n = name THEN v ELSE locals[n]]

Init ==
    /\ pc = "with_enter"
    /\ log = << >>
    /\ locals = [n \in {} |-> FALSE]
    /\ exc = "none"
    /\ playwright = "off"
    /\ browser = "unbound"
    /\ page = "unbound"
    /\ buttonInShadow \in BOOLEAN
    /\ dialogOpen \in BOOLEAN
    /\ openAtClick = dialogOpen

(***************************************************************************)
(* A statement of the try block that calls the page and binds nothing:     *)
(* it returns, or it raises and control goes to the except clause.         *)
(***************************************************************************)
PageCall(step) ==
    /\ pc = step
    /\ \E ok \in BOOLEAN :
         IF ok
         THEN /\ log' = Append(log, Call(step))
              /\ pc' = Succ(step)
              /\ exc' = exc
         ELSE /\ log' = log \o << Call(step), RaiseEv(step) >>
              /\ pc' = "except"
              /\ exc' = step

\* with sync_playwright() as p:
WithEnter ==
    /\ pc = "with_enter"
    /\ playwright' = "running"
    /\ pc' = "launch"
    /\ UNCHANGED <<log, locals, exc, browser, page, buttonInShadow,
                   dialogOpen, openAtClick>>

\* browser = p.chromium.launch(headless=True)   (outside the try block)
Launch ==
    /\ pc = "launch"
    /\ \E ok \in BOOLEAN :
         IF ok
         THEN /\ log' = Append(log, Call("launch"))
              /\ browser' = "open"
              /\ pc' = "new_page"
              /\ exc' = exc
         ELSE /\ log' = log \o << Call("launch"), RaiseEv("launch") >>
              /\ browser' = browser
              /\ pc' = "with_exit"
              /\ exc' = "launch"
    /\ UNCHANGED <<locals, playwright, page, buttonInShadow, dialogOpen,
                   openAtClick>>

\* Mutant of NewPage: new_page() moved inside the try block.
NewPage_inTry ==
    /\ pc = "new_page"
    /\ \E ok \in BOOLEAN :
         IF ok
         THEN /\ log' = Append(log, Call("new_page"))
              /\ page' = "open"
              /\ pc' = "goto"
              /\ exc' = exc
         ELSE /\ log' = log \o << Call("new_page"), RaiseEv("new_page") >>
              /\ page' = page
              /\ pc' = "except"
              /\ exc' = "new_page"
    /\ UNCHANGED <<locals, playwright, browser, buttonInShadow, dialogOpen,
                   openAtClick>>

\* page = browser.new_page()                    (outside the try block)
NewPage ==
    /\ pc = "new_page"
    /\ \E ok \in BOOLEAN :
         IF ok
         THEN /\ log' = Append(log, Call("new_page"))
              /\ page' = "open"
              /\ pc' = "goto"
              /\ exc' = exc
         ELSE /\ log' = log \o << Call("new_page"), RaiseEv("new_page") >>
              /\ page' = page
              /\ pc' = "with_exit"
              /\ exc' = "new_page"
    /\ UNCHANGED <<locals, playwright, browser, buttonInShadow, dialogOpen,
                   openAtClick>>

\* page.goto(URL)
Goto ==
    /\ PageCall("goto")
    /\ UNCHANGED <<locals, playwright, browser, page, buttonInShadow,
                   dialogOpen, openAtClick>>

\* page.wait_for_selector("md-text-field")
WaitForSelector ==
    /\ PageCall("wait_for_selector")
    /\ UNCHANGED <<locals, playwright, browser, page, buttonInShadow,
                   dialogOpen, openAtClick>>

\* page.wait_for_timeout(2000)
WaitComponent ==
    /\ PageCall("wait_for_timeout_2000")
    /\ UNCHANGED <<locals, playwright, browser, page, buttonInShadow,
                   dialogOpen, openAtClick>>

\* has_icon = page.evaluate(... return !!button ...)
EvaluateHasIcon ==
    /\ PageCall("evaluate_has_icon")
    /\ locals' = IF exc' = "none"
                 THEN Bind("has_icon", buttonInShadow) ELSE locals
    /\ UNCHANGED <<playwright, browser, page, buttonInShadow, dialogOpen,
                   openAtClick>>

\* print(f"Has trailing icon button: {has_icon}")
PrintHasIcon ==
    /\ pc = "print_has_icon"
    /\ log' = Append(log, PrintEv(HasIconLine(locals["has_icon"])))
    /\ pc' = Succ("print_has_icon")
    /\ UNCHANGED <<locals, exc, playwright, browser, page, buttonInShadow,
                   dialogOpen, openAtClick>>

\* A screenshot statement of the try block: the file is written when the
\* call returns, and not when it raises.
Screenshot(step, path) ==
    /\ pc = step
    /\ \E ok \in BOOLEAN :
         IF ok
         THEN /\ log' = log \o << Call(step), WriteEv(path) >>
              /\ pc' = Succ(step)
              /\ exc' = exc
         ELSE /\ log' = log \o << Call(step), RaiseEv(step) >>
              /\ pc' = "except"
              /\ exc' = step
    /\ UNCHANGED <<locals, playwright, browser, page, buttonInShadow,
                   dialogOpen, openAtClick>>

\* page.screenshot(path="verification/before_click.png")
ScreenshotBefore == Screenshot("screenshot_before_click", BeforeClickPath)

\* Mutant of EvaluateClick: a missing button is skipped silently
\* (button?.click()) instead of raising.
EvaluateClick_guarded ==
    /\ pc = "evaluate_click"
    /\ \E ok \in BOOLEAN :
         IF ok
         THEN /\ log' = Append(log, Call("evaluate_click"))
              /\ pc' = Succ("evaluate_click")
              /\ exc' = exc
              /\ openAtClick' = dialogOpen
              /\ IF buttonInShadow
                 THEN dialogOpen' \in BOOLEAN
                 ELSE dialogOpen' = dialogOpen
         ELSE /\ log' = log \o << Call("evaluate_click"),
                                  RaiseEv("evaluate_click") >>
              /\ pc' = "except"
              /\ exc' = "evaluate_click"
              /\ UNCHANGED <<dialogOpen, openAtClick>>
    /\ UNCHANGED <<locals, playwright, browser, page, buttonInShadow>>

\* page.evaluate(... button.click() ...): the button is queried again; with
\* no button in the shadow root `button` is null and the call raises.  A
\* dispatched click leaves the dialog's `open` to the page's handler.
EvaluateClick ==
    /\ pc = "evaluate_click"
    /\ \E ok \in BOOLEAN :
         IF ok /\ buttonInShadow
         THEN /\ log' = Append(log, Call("evaluate_click"))
              /\ pc' = Succ("evaluate_click")
              /\ exc' = exc
              /\ openAtClick' = dialogOpen
              /\ dialogOpen' \in BOOLEAN
         ELSE /\ log' = log \o << Call("evaluate_click"),
                                  RaiseEv("evaluate_click") >>
              /\ pc' = "except"
              /\ exc' = "evaluate_click"
              /\ UNCHANGED <<dialogOpen, openAtClick>>
    /\ UNCHANGED <<locals, playwright, browser, page, buttonInShadow>>

\* page.wait_for_timeout(500)
WaitDialog ==
    /\ PageCall("wait_for_timeout_500")
    /\ UNCHANGED <<locals, playwright, browser, page, buttonInShadow,
                   dialogOpen, openAtClick>>

\* Mutant of EvaluateIsOpen: the probe returns the value `open` had before
\* the click.
EvaluateIsOpen_stale ==
    /\ PageCall("evaluate_is_open")
    /\ locals' = IF exc' = "none"
                 THEN Bind("is_open", openAtClick) ELSE locals
    /\ UNCHANGED <<playwright, browser, page, buttonInShadow, dialogOpen,
                   openAtClick>>

\* is_open = page.evaluate(... return dialog.open ...)
EvaluateIsOpen ==
    /\ PageCall("evaluate_is_open")
    /\ locals' = IF exc' = "none"
                 THEN Bind("is_open", dialogOpen) ELSE locals
    /\ UNCHANGED <<playwright, browser, page, buttonInShadow, dialogOpen,
                   openAtClick>>

\* print(f"Dialog open after click: {is_open}")
PrintIsOpen ==
    /\ pc = "print_is_open"
    /\ log' = Append(log, PrintEv(IsOpenLine(locals["is_open"])))
    /\ pc' = Succ("print_is_open")
    /\ UNCHANGED <<locals, exc, playwright, browser, page, buttonInShadow,
                   dialogOpen, openAtClick>>

\* Mutant of ScreenshotAfter: the second screenshot overwrites the first.
ScreenshotAfter_overwrite ==
    Screenshot("screenshot_after_click", BeforeClickPath)

\* page.screenshot(path="verification/after_click.png")
ScreenshotAfter == Screenshot("screenshot_after_click", AfterClickPath)

\* Mutant of Except: the handler logs and re-raises.
Except_reraise ==
    /\ pc = "except"
    /\ log' = Append(log, PrintEv(ErrorLine(exc)))
    /\ pc' = "finally"
    /\ UNCHANGED <<locals, exc, playwright, browser, page, buttonInShadow,
                   dialogOpen, openAtClick>>

\* Mutant of Except: the handler logs and runs the failed step again.
Except_retry ==
    /\ pc = "except"
    /\ log' = Append(log, PrintEv(ErrorLine(exc)))
    /\ exc' = "none"
    /\ pc' = exc
    /\ UNCHANGED <<locals, playwright, browser, page, buttonInShadow,
                   dialogOpen, openAtClick>>

\* Mutant of Except: the handler swallows the exception without a message.
Except_silent ==
    /\ pc = "except"
    /\ exc' = "none"
    /\ pc' = "finally"
    /\ UNCHANGED <<log, locals, playwright, browser, page, buttonInShadow,
                   dialogOpen, openAtClick>>

\* except Exception as e: print(f"Error: {e}")
Except ==
    /\ pc = "except"
    /\ log' = Append(log, PrintEv(ErrorLine(exc)))
    /\ exc' = "none"
    /\ pc' = "finally"
    /\ UNCHANGED <<locals, playwright, browser, page, buttonInShadow,
                   dialogOpen, openAtClick>>

\* Mutant of Finally: close() only on the path that caught no exception.
Finally_onSuccessOnly ==
    /\ pc = "finally"
    /\ IF \E i \in 1..Len(log) : log[i][1] = "raise"
       THEN UNCHANGED <<log, browser>>
       ELSE /\ log' = Append(log, Call("close"))
            /\ browser' = "closed"
    /\ pc' = "with_exit"
    /\ UNCHANGED <<locals, exc, playwright, page, buttonInShadow,
                   dialogOpen, openAtClick>>

\* finally: browser.close()
Finally ==
    /\ pc = "finally"
    /\ log' = Append(log, Call("close"))
    /\ browser' = "closed"
    /\ pc' = "with_exit"
    /\ UNCHANGED <<locals, exc, playwright, page, buttonInShadow,
                   dialogOpen, openAtClick>>

\* Leaving the `with` block stops Playwright; an exception in flight goes on
\* to the caller, otherwise verify_date_picker returns.
WithExit ==
    /\ pc = "with_exit"
    /\ playwright' = "stopped"
    /\ pc' = IF exc = "none" THEN "done" ELSE "raised"
    /\ UNCHANGED <<log, locals, exc, browser, page, buttonInShadow,
                   dialogOpen, openAtClick>>

Next ==
    \/ WithEnter
    \/ Launch
    \/ NewPage
    \/ Goto
    \/ WaitForSelector
    \/ WaitComponent
    \/ EvaluateHasIcon
    \/ PrintHasIcon
    \/ ScreenshotBefore
    \/ EvaluateClick
    \/ WaitDialog
    \/ EvaluateIsOpen
    \/ PrintIsOpen
    \/ ScreenshotAfter
    \/ Except
    \/ Finally
    \/ WithExit

Spec == Init /\ [][Next]_vars

(***************************************************************************)
(* Views of the history.                                                   *)
(***************************************************************************)
Proj(kind) ==
    LET sel == SelectSeq(log, LAMBDA e : e[1] = kind)
    IN  [i \in 1..Len(sel) |-> sel[i][2]]

Calls == Proj("call")      \* browser / page operations attempted, in order
Raised == Proj("raise")    \* the steps that raised, in order
Out == Proj("print")       \* the lines on standard output, in order
Files == Proj("write")     \* the screenshot files written, in order

Range(seq) == {seq[i] : i \in 1..Len(seq)}
Count(seq, x) == Cardinality({i \in 1..Len(seq) : seq[i] = x})
Pos(ev) == CHOOSE i \in 1..Len(log) : log[i] = ev
IsPrefix(s, t) == Len(s) <= Len(t) /\ s = SubSeq(t, 1, Len(s))
Tail2(seq, i) == SubSeq(seq, i + 1, Len(seq))

Order == <<"launch", "new_page">> \o ProbeSteps
ErrorLines == {ErrorLine(Order[i]) : i \in 1..Len(Order)}
NumErrors == Cardinality({i \in 1..Len(Out) : Out[i] \in ErrorLines})
ProbeFailed == \E s \in Range(ProbeSteps) : s \in Range(Raised)
Terminated == pc \in {"done", "raised"}

(***************************************************************************)
(* C1 as stated: in every finished run in which the browser was launched,  *)
(* browser.close() is called exactly once and is the last browser/page     *)
(* operation.                                                              *)
(***************************************************************************)
C1_AsStated ==
    (Terminated /\ browser # "unbound") =>
        /\ Count(Calls, "close") = 1
        /\ Calls[Len(Calls)] = "close"

(***************************************************************************)
(* C1 amended: close() is never called twice and nothing is called after   *)
(* it; in every finished run in which the page was created (the try block  *)
(* was entered) it is called exactly once and is the last browser/page     *)
(* operation, whether or not a probe step raised.                          *)
(***************************************************************************)
C1_CloseOnceAndLast ==
    /\ Count(Calls, "close") <= 1
    /\ "close" \in Range(Calls) => Calls[Len(Calls)] = "close"
    /\ (Terminated /\ page = "open") =>
          /\ Count(Calls, "close") = 1
          /\ Calls[Len(Calls)] = "close"
          /\ browser = "closed"

C1_Witness ==
    /\ Terminated
    /\ ProbeFailed
    /\ Calls[Len(Calls)] = "close"

(***************************************************************************)
(* C2: an exception raised by a probe step is caught and reported as one   *)
(* "Error: ..." line; after it nothing happens but that print and the      *)
(* close() of the cleanup step, and verify_date_picker returns normally.   *)
(***************************************************************************)
C2_CaughtReportedSwallowed ==
    \A s \in Range(ProbeSteps) :
        s \in Range(Raised) =>
            /\ pc # "raised"
            /\ IsPrefix(Tail2(log, Pos(RaiseEv(s))),
                        << PrintEv(ErrorLine(s)), Call("close") >>)
            /\ Terminated =>
                  /\ pc = "done"
                  /\ exc = "none"
                  /\ NumErrors = 1
                  /\ Out[Len(Out)] = ErrorLine(s)
                  /\ Calls[Len(Calls)] = "close"

C2_Witness ==
    /\ pc = "done"
    /\ "evaluate_is_open" \in Range(Raised)
    /\ Out[Len(Out)] = ErrorLine("evaluate_is_open")

C4_AsStated ==
    (Terminated /\ page = "open") =>
        IF Raised = << >>
        THEN Out = << HasIconLine(locals["has_icon"]),
                      IsOpenLine(locals["is_open"]) >>
        ELSE Len(Out) = 1 /\ Out[1] \in ErrorLines

(***************************************************************************)
(* C4 amended: with no failing step the output is exactly the two          *)
(* diagnostic lines, in order; when a step of the try block fails it is    *)
(* the diagnostic lines printed before the failure (none, the first, or    *)
(* both) followed by one "Error:" line; when launch or new_page fails      *)
(* nothing is printed.                                                     *)
(***************************************************************************)
C4_Output ==
    Terminated =>
        LET diag == << "Has trailing icon button: " \o
                         (IF buttonInShadow THEN "True" ELSE "False"),
                       "Dialog open after click: " \o
                         (IF dialogOpen THEN "True" ELSE "False") >>
        IN  CASE Raised = << >> -> Out = diag
              [] ProbeFailed ->
                   /\ Len(Out) >= 1
                   /\ Out[Len(Out)] = "Error: " \o Message(Raised[1])
                   /\ IsPrefix(SubSeq(Out, 1, Len(Out) - 1), diag)
              [] OTHER -> Out = << >>

C4_Witness ==
    /\ pc = "done"
    /\ Len(Out) = 2
    /\ Out[2] \in ErrorLines

(***************************************************************************)
(* C5: the files written are a prefix of <<before_click, after_click>>;    *)
(* a run with no failing step writes both; before_click is written before  *)
(* the click is issued and after_click after the dialog's open state has   *)
(* been probed.                                                            *)
(***************************************************************************)
C5_Screenshots ==
    /\ IsPrefix(Files, << "verification/before_click.png",
                          "verification/after_click.png" >>)
    /\ (Terminated /\ Raised = << >>) => Len(Files) = 2
    /\ Call("evaluate_click") \in Range(log) =>
          /\ WriteEv("verification/before_click.png") \in Range(log)
          /\ Pos(WriteEv("verification/before_click.png"))
                < Pos(Call("evaluate_click"))
    /\ WriteEv("verification/after_click.png") \in Range(log) =>
          /\ Call("evaluate_is_open") \in Range(log)
          /\ "is_open" \in DOMAIN locals
          /\ Pos(Call("evaluate_is_open"))
                < Pos(WriteEv("verification/after_click.png"))

C5_Witness ==
    /\ Terminated
    /\ Len(Files) = 2

(***************************************************************************)
(* C6 as stated: the script verifies that the dialog's open state toggles: *)
(* a run that dispatched the click and reported no error saw the dialog's  *)
(* open value differ from its value before the click.                      *)
(***************************************************************************)
C6_AsStated ==
    (Terminated /\ Raised = << >>) => dialogOpen # openAtClick

(***************************************************************************)
(* C6 amended: after the click and the 500 ms wait the script reads the    *)
(* dialog's open value once and prints it; the value read is the dialog's  *)
(* state after the click, and it is not compared with the state before.    *)
(***************************************************************************)
C6_ReportsOpenAfterClick ==
    "is_open" \in DOMAIN locals =>
        /\ Call("evaluate_click") \in Range(log)
        /\ Call("wait_for_timeout_500") \in Range(log)
        /\ locals["is_open"] = dialogOpen
        /\ \A i \in 1..Len(Out) :
              Out[i] \in {IsOpenLine(TRUE), IsOpenLine(FALSE)}
                 => Out[i] = IsOpenLine(dialogOpen)

C6_Witness ==
    /\ pc = "done"
    /\ Raised = << >>
    /\ dialogOpen = openAtClick
    /\ Out[2] = IsOpenLine(dialogOpen)

(***************************************************************************)
(* C7: no retry and no overlap: every call site is attempted at most once, *)
(* a call returns or raises before anything else happens, and after a      *)
(* raise no step but the cleanup is attempted.                             *)
(***************************************************************************)
C7_NoRetryNoOverlap ==
    /\ \A i, j \in 1..Len(Calls) : Calls[i] = Calls[j] => i = j
    /\ Len(Raised) <= 1
    /\ \A i \in 1..Len(log) :
          log[i][1] = "raise" =>
             /\ i > 1
             /\ log[i - 1] = Call(log[i][2])
             /\ \A j \in (i + 1)..Len(log) :
                   log[j][1] = "call" => log[j][2] = "close"

C7_Witness ==
    /\ Terminated
    /\ "wait_for_selector" \in Range(Raised)
    /\ Count(Calls, "wait_for_selector") = 1

(***************************************************************************)
(* C8: the click follows the first screenshot whatever has_icon is; in a   *)
(* run whose icon probe returned False the click, if reached, raises, the  *)
(* output is the has_icon line followed by one "Error:" line, and neither  *)
(* the dialog line nor after_click.png is produced.                        *)
(***************************************************************************)
C8_ClickUnconditional ==
    /\ WriteEv(BeforeClickPath) \in Range(log) =>
          \/ pc = "evaluate_click"
          \/ Call("evaluate_click") \in Range(log)
    /\ ("has_icon" \in DOMAIN locals /\ ~locals["has_icon"]) =>
          /\ Call("evaluate_click") \in Range(log)
                => "evaluate_click" \in Range(Raised)
          /\ "is_open" \notin DOMAIN locals
          /\ AfterClickPath \notin Range(Files)
          /\ Terminated =>
                /\ Len(Out) = 2
                /\ Out[1] = "Has trailing icon button: False"
                /\ Out[2] \in ErrorLines

C8_Witness ==
    /\ pc = "done"
    /\ "has_icon" \in DOMAIN locals
    /\ ~locals["has_icon"]
    /\ "evaluate_click" \in Range(Raised)
    /\ Out = << "Has trailing icon button: False",
                ErrorLine("evaluate_click") >>

(***************************************************************************)
(* C9: a failure of launch or new_page is not handled: nothing is printed, *)
(* the exception leaves verify_date_picker, and when new_page fails after  *)
(* a successful launch browser.close() is not executed.                    *)
(***************************************************************************)
C9_FailuresBeforeTry ==
    \A s \in {"launch", "new_page"} :
        s \in Range(Raised) =>
            /\ Out = << >>
            /\ exc = s
            /\ pc \in {"with_exit", "raised"}
            /\ "close" \notin Range(Calls)
            /\ s = "new_page" => browser = "open"

C9_Witness ==
    /\ pc = "raised"
    /\ exc = "new_page"
    /\ browser = "open"

(***************************************************************************)
(* C10: a run that entered the try block and reached the end printed an    *)
(* "Error:" line or wrote after_click.png, never both; the "Error:" line   *)
(* is printed at most once, is the last line, and no print or screenshot   *)
(* follows it.                                                             *)
(***************************************************************************)
C10_ErrorXorAfterClick ==
    /\ NumErrors <= 1
    /\ \A i \in 1..Len(log) :
          (log[i][1] = "print" /\ log[i][2] \in ErrorLines) =>
             \A j \in (i + 1)..Len(log) : log[j][1] \notin {"print", "write"}
    /\ (Terminated /\ page = "open") =>
          /\ pc = "done"
          /\ (NumErrors = 1) # (AfterClickPath \in Range(Files))

C10_Witness ==
    /\ pc = "done"
    /\ NumErrors = 1
    /\ Len(Out) = 3
    /\ Files = << BeforeClickPath >>

====
